---- MODULE Spec2Model ----
(***************************************************************************)
(* Model of the industrial-anomaly-detection dashboard pipeline.           *)
(*                                                                         *)
(* Numbers.  JavaScript numbers are modelled as exact rationals with one   *)
(* common denominator Den: the integer x stands for x / Den.  A call of    *)
(* Math.random() returns k / RandDen for some k in 0 .. RandDen-1 (the     *)
(* half-open interval [0,1)).  Number(x.toFixed(4)) is Round4: the nearest *)
(* multiple of 1/10000, ties upwards.  IEEE rounding error of the          *)
(* individual float operations is not modelled.                            *)
(***************************************************************************)
EXTENDS Integers, Sequences, FiniteSets, TLC

VARIABLES
    mockPrediction,   \* the store's currentPrediction on the mock path
    monitor,          \* what RealTimeMonitor last rendered
    weights,          \* EnsembleScorer: configured weight of each detector
    buffered,         \* temporal detector: feature vectors buffered (<= K)
    det,              \* per detector: status and score in the current tick
    ensResult,        \* the EnsembleResult (or error) of the current tick
    threshold,        \* ThresholdState of the asset
    window,           \* rolling window of feedback items, oldest first
    appliedIds,       \* feedback identifiers already applied
    outcome,          \* what the last feedback delivery did
    drift,            \* DriftState of the asset
    stream,           \* the interval of createDataStream
    ticks,            \* interval ticks fired so far
    req,              \* per tick: its request, its fetchPrediction, its callback
    store,            \* useAppStore: currentPrediction, predictionHistory,
                      \* notifications, isConnected, systemHealth
    features,         \* the features object of the last mock prediction
    waveform,         \* the waveform and spectrum of the last mock prediction
    log,              \* counts of the calls made on the store
    query,            \* the health query of useHealthCheck (React Query)
    hook,             \* useHealthCheck: mounted, pending effect, last outcomes
    panel,            \* the models on the server and the status indicator
    stats,            \* the last call of calculateFeatureStats
    chart             \* the last render of SpectrumChart

mockVars == <<mockPrediction, monitor>>

ensVars == <<weights, buffered, det, ensResult>>

thrVars == <<threshold, window, appliedIds, outcome>>

vars == <<mockPrediction, monitor, weights, buffered, det, ensResult,
          threshold, window, appliedIds, outcome, drift,
          stream, ticks, req, store,
          features, waveform, log, query, hook,
          panel, stats, chart>>

streamVars == <<stream, ticks, req, store>>

dataVars == <<features, waveform>>

healthVars == <<query, hook>>

uiVars == <<features, waveform, log, query, hook>>

viewVars == <<panel, stats, chart>>

(***************************************************************************)
(* Bounds                                                                  *)
(***************************************************************************)
\* Math.random() is drawn from { k / RandDen : k \in 0 .. RandDen-1 }.
RandDen == 6

Rand == 0 .. (RandDen - 1)

\* A detector returns a score s / ScoreDen with s in 0 .. ScoreDen.
ScoreDen == 2

ScoreGrid == 0 .. ScoreDen

\* Interval ticks that fire in a run.
MaxTicks == 3

\* Feedback identifiers 1 .. MaxFeedback.
MaxFeedback == 2

\* The grid search tries the cuts g / GridSteps, g in 0 .. GridSteps.
GridSteps == 3

\* Drift checks stop counting at MaxConsecutive over-threshold checks.
MaxConsecutive == 3

\* Features whose distributions the drift monitor compares (30 in the
\* pipeline), numbered 1 .. NumFeatures.
NumFeatures == 4

\* feedback ids of the asset that is also checked for drift
MaxAssetFeedback == 1

\* addToHistory calls; above the 100 entries the history keeps
MaxAdds == 102

\* addNotification calls; above the 50 notifications the store keeps
MaxNotified == 52

\* removeNotification calls
MaxRemovals == 1

\* distinct responses of GET /api/health, numbered 1 .. MaxResponses
MaxResponses == 2

\* length of the prediction lists given to calculateFeatureStats
MaxStatsLen == 2

\* number of frequency bins given to SpectrumChart
MaxBins == 9

\* addNotification calls whose Date.now() and Math.random() are drawn freely
MaxIdAdds == 3

\* Common denominator of every score: 1/10 of a weight times 1/10000 of a
\* score offset times 1/RandDen of a draw.
Den == 100000 * RandDen

\* One unit of the fourth decimal place, in 1/Den.
Q4 == Den \div 10000

(***************************************************************************)
(* Number formatting                                                       *)
(***************************************************************************)
\* Number(x.toFixed(4)) for x >= 0: nearest multiple of 0.0001, ties up.
Round4(x) == ((2 * x + Q4) \div (2 * Q4)) * Q4

\* decimal literal d/10000 as a numerator over Den
Dec4(d) == d * Q4

(***************************************************************************)
(* services/predictionService.ts: generateMockPrediction                   *)
(***************************************************************************)
\* Math.random() > 0.8
IsAnomalous(k) == 10 * k > 8 * RandDen

\* base + Math.random() * span, base and span given in 1/10000
Draw(base, span, k) == Dec4(base) + (Dec4(span) \div RandDen) * k

\* a slip in a literal: the anomalous branch spans 0.6 instead of 0.3
AutoencoderScoreWide(anom, k) ==
    IF anom THEN Draw(6000, 6000, k) ELSE Draw(1000, 2000, k)

AutoencoderScore(anom, k) ==
    IF anom THEN Draw(6000, 3000, k) ELSE Draw(1000, 2000, k)

IsolationScore(anom, k) ==
    IF anom THEN Draw(5000, 4000, k) ELSE Draw(500, 1500, k)

LstmScore(anom, k) ==
    IF anom THEN Draw(5500, 3500, k) ELSE Draw(800, 1800, k)

\* the first two weights exchanged
EnsembleScoreSwapped(ae, iso, lstm) == (ae * 3 + iso * 4 + lstm * 3) \div 10

\* the weights forgotten: a plain sum of the three scores
EnsembleScoreUnweighted(ae, iso, lstm) == ae + iso + lstm

\* autoencoderScore * 0.4 + isolationScore * 0.3 + lstmScore * 0.3
EnsembleScore(ae, iso, lstm) == (ae * 4 + iso * 3 + lstm * 3) \div 10

\* 1.0 - ensembleScore
HealthScore(ens) == Den - ens

\* ensembleScore > 0.5
IsAnomaly(ens) == ens > Dec4(5000)

\* The returned object.  The fields features, temperature, rul_hours,
\* timestamp, waveform and spectrum are independent of the scores and are
\* left out here.
GenerateMockPrediction(k0, k1, k2, k3) ==
    LET anom == IsAnomalous(k0)
        ae   == AutoencoderScore(anom, k1)
        iso  == IsolationScore(anom, k2)
        lstm == LstmScore(anom, k3)
        ens  == EnsembleScore(ae, iso, lstm)
    IN  [ is_anomaly     |-> IsAnomaly(ens),
          ensemble_score |-> Round4(ens),
          model_scores   |-> [ autoencoder      |-> Round4(ae),
                               isolation_forest |-> Round4(iso),
                               lstm             |-> Round4(lstm) ],
          health_score   |-> HealthScore(ens),
          isAnomalous    |-> anom,
          raw            |-> [ autoencoder      |-> ae,
                               isolation_forest |-> iso,
                               lstm             |-> lstm,
                               ensemble         |-> ens ] ]

NoPrediction == [ is_anomaly |-> FALSE, ensemble_score |-> -1 ]

(***************************************************************************)
(* RealTimeMonitor (hooks/useHealthCheck.ts, lines 49-92)                  *)
(***************************************************************************)
\* currentPrediction?.health_score ?? 0.95
MonitorHealthScore(p) == IF p = NoPrediction THEN Dec4(9500) ELSE p.health_score

\* currentPrediction?.ensemble_score ?? 0.12
MonitorAnomalyScore(p) == IF p = NoPrediction THEN Dec4(1200) ELSE p.ensemble_score

getHealthStatus(healthScore) ==
    IF healthScore >= Dec4(8000) THEN "Normal"
    ELSE IF healthScore >= Dec4(5000) THEN "Warning"
    ELSE "Critical"

getRiskLevel(anomalyScore) ==
    IF anomalyScore < Dec4(3000) THEN "Low Risk"
    ELSE IF anomalyScore < Dec4(6000) THEN "Medium Risk"
    ELSE "High Risk"

\* The documented alert levels of the ensemble (README, "Ensemble Decision").
AlertLevel(score) ==
    IF score < Dec4(3000) THEN "normal"
    ELSE IF score < Dec4(7000) THEN "warning"
    ELSE "critical"

NotRendered == [ shown |-> FALSE ]

RenderOf(p) ==
    [ shown        |-> TRUE,
      anomalyScore |-> MonitorAnomalyScore(p),
      healthScore  |-> MonitorHealthScore(p),
      riskLevel    |-> getRiskLevel(MonitorAnomalyScore(p)),
      healthStatus |-> getHealthStatus(MonitorHealthScore(p)) ]

(***************************************************************************)
(* Fractions <<n, d>> with d > 0                                           *)
(***************************************************************************)
FracEq(a, b) == a[1] * b[2] = b[1] * a[2]

FracLess(a, b) == a[1] * b[2] < b[1] * a[2]

FracAdd(a, b) == <<a[1] * b[2] + b[1] * a[2], a[2] * b[2]>>

FracMul(a, b) == <<a[1] * b[1], a[2] * b[2]>>

RECURSIVE SetSum(_, _)
SetSum(f, S) ==
    IF S = {} THEN 0
    ELSE LET x == CHOOSE y \in S : TRUE IN f[x] + SetSum(f, S \ {x})

RECURSIVE FracSetSum(_, _)
FracSetSum(f, S) ==
    IF S = {} THEN <<0, 1>>
    ELSE LET x == CHOOSE y \in S : TRUE IN FracAdd(f[x], FracSetSum(f, S \ {x}))

(***************************************************************************)
(* EnsembleScorer and the three DetectorAdapters (backend models/ensemble; *)
(* the frontend holds only its result type and its mock)                   *)
(***************************************************************************)
Detectors == {"autoencoder", "isolation_forest", "lstm"}

\* sequence length of the temporal detector
K == 100

\* weights in tenths
DefaultWeights ==
    [ d \in Detectors |-> IF d = "autoencoder" THEN 4 ELSE 3 ]

\* ensemble.set_weights(autoencoder=0.5, isolation_forest=0.3, lstm=0.2)
AdjustedWeights ==
    [ d \in Detectors |->
        IF d = "autoencoder" THEN 5 ELSE IF d = "lstm" THEN 2 ELSE 3 ]

WeightConfigs == {DefaultWeights, AdjustedWeights}

BootstrapWarningCut == <<3, 10>>

BootstrapCriticalCut == <<7, 10>>

\* alert level of a composite given as a fraction
Classify(c, warningCut, criticalCut) ==
    IF FracLess(c, warningCut) THEN "normal"
    ELSE IF FracLess(c, criticalCut) THEN "warning"
    ELSE "critical"

Available(dt) == { d \in Detectors : dt[d].status = "scored" }

\* weights renormalized to sum to 1 over the available subset
Renormalize(w, avail) ==
    [ d \in Detectors |->
        IF d \in avail THEN <<w[d], SetSum(w, avail)>> ELSE <<0, 1>> ]

\* weighted sum of the available scores over the sum of their weights
Composite(w, dt, avail) ==
    << SetSum([ d \in Detectors |-> w[d] * dt[d].score ], avail),
       SetSum(w, avail) * ScoreDen >>

\* every slot flagged as available
CombineAllFlagged(w, dt) ==
    LET avail == Available(dt)
    IN  IF avail = {} THEN [ kind |-> "NoDetectorAvailableError" ]
        ELSE [ kind      |-> "composite",
               available |-> [ d \in Detectors |-> TRUE ],
               scores    |-> [ d \in Detectors |-> dt[d].score ],
               applied   |-> Renormalize(w, avail),
               composite |-> Composite(w, dt, avail),
               alert     |-> Classify(Composite(w, dt, avail),
                                      BootstrapWarningCut,
                                      BootstrapCriticalCut) ]

\* no check for an empty available subset
CombineUnguarded(w, dt) ==
    LET avail == Available(dt)
    IN  [ kind      |-> "composite",
          available |-> [ d \in Detectors |-> d \in avail ],
          scores    |-> [ d \in Detectors |-> dt[d].score ],
          applied   |-> Renormalize(w, avail),
          composite |-> Composite(w, dt, avail),
          alert     |-> Classify(Composite(w, dt, avail),
                                 BootstrapWarningCut,
                                 BootstrapCriticalCut) ]

Combine(w, dt) ==
    LET avail == Available(dt)
    IN  IF avail = {} THEN [ kind |-> "NoDetectorAvailableError" ]
        ELSE [ kind      |-> "composite",
               available |-> [ d \in Detectors |-> d \in avail ],
               scores    |-> [ d \in Detectors |-> dt[d].score ],
               applied   |-> Renormalize(w, avail),
               composite |-> Composite(w, dt, avail),
               alert     |-> Classify(Composite(w, dt, avail),
                                      BootstrapWarningCut,
                                      BootstrapCriticalCut) ]

NoResult == [ kind |-> "none" ]

Pending == [ kind |-> "pending" ]

Idle == [ status |-> "idle", score |-> 0 ]

Min(a, b) == IF a < b THEN a ELSE b

EnsInit ==
    /\ weights = DefaultWeights
    /\ buffered = 0
    /\ det = [ d \in Detectors |-> Idle ]
    /\ ensResult = NoResult

\* runtime configuration of the weights, between ticks
SetWeights ==
    /\ ensResult.kind # "pending"
    /\ \E w \in WeightConfigs : weights' = w
    /\ weights' # weights
    /\ UNCHANGED <<buffered, det, ensResult>>
    /\ UNCHANGED <<mockVars, thrVars, drift, streamVars, uiVars, viewVars>>

\* a new feature vector: it is buffered and the three detectors are started;
\* the temporal detector raises InsufficientHistoryError at once when fewer
\* than K vectors are buffered
StartTick ==
    /\ ensResult.kind # "pending"
    /\ buffered' = Min(buffered + 1, K)
    /\ det' = [ d \in Detectors |->
                 IF d = "lstm" /\ buffered' < K
                 THEN [ status |-> "InsufficientHistoryError", score |-> 0 ]
                 ELSE [ status |-> "running", score |-> 0 ] ]
    /\ ensResult' = Pending
    /\ UNCHANGED weights
    /\ UNCHANGED <<mockVars, thrVars, drift, streamVars, uiVars, viewVars>>

DetectorScores(d) ==
    /\ ensResult.kind = "pending"
    /\ det[d].status = "running"
    /\ \E s \in ScoreGrid :
         det' = [ det EXCEPT ![d] = [ status |-> "scored", score |-> s ] ]
    /\ UNCHANGED <<weights, buffered, ensResult>>
    /\ UNCHANGED <<mockVars, thrVars, drift, streamVars, uiVars, viewVars>>

DetectorTimesOut(d) ==
    /\ ensResult.kind = "pending"
    /\ det[d].status = "running"
    /\ det' = [ det EXCEPT ![d] = [ status |-> "timeout", score |-> 0 ] ]
    /\ UNCHANGED <<weights, buffered, ensResult>>
    /\ UNCHANGED <<mockVars, thrVars, drift, streamVars, uiVars, viewVars>>

\* combines as soon as one detector has scored
CombineTickEarly ==
    /\ ensResult.kind = "pending"
    /\ \E d \in Detectors : det[d].status = "scored"
    /\ ensResult' = Combine(weights, det)
    /\ UNCHANGED <<weights, buffered, det>>
    /\ UNCHANGED <<mockVars, thrVars, drift, streamVars, uiVars, viewVars>>

\* all three have returned, failed or timed out: combine
CombineTick ==
    /\ ensResult.kind = "pending"
    /\ \A d \in Detectors : det[d].status # "running"
    /\ ensResult' = Combine(weights, det)
    /\ UNCHANGED <<weights, buffered, det>>
    /\ UNCHANGED <<mockVars, thrVars, drift, streamVars, uiVars, viewVars>>

EnsNext ==
    \/ SetWeights
    \/ StartTick
    \/ \E d \in Detectors : DetectorScores(d)
    \/ \E d \in Detectors : DetectorTimesOut(d)
    \/ CombineTick

(***************************************************************************)
(* AdaptiveThreshold: per-asset cuts recalibrated from operator feedback   *)
(***************************************************************************)
FeedbackIds == 1 .. MaxFeedback

GridCuts == { <<g, GridSteps>> : g \in 0 .. GridSteps }

\* target ceiling of the rolling false-positive rate
FPCeiling == <<1, 4>>

Max(a, b) == IF a > b THEN a ELSE b

Positions(win) == DOMAIN win

\* the items of the window a cut would have alerted on
Alerted(cut, win) ==
    { i \in Positions(win) : ~FracLess(<<win[i].score, ScoreDen>>, cut) }

Positives(win) == { i \in Positions(win) : win[i].confirmed }

Negatives(win) == { i \in Positions(win) : ~win[i].confirmed }

FalsePositiveRate(cut, win) ==
    << Cardinality(Alerted(cut, win) \cap Negatives(win)),
       Max(1, Cardinality(Negatives(win))) >>

TruePositiveRate(cut, win) ==
    << Cardinality(Alerted(cut, win) \cap Positives(win)),
       Max(1, Cardinality(Positives(win))) >>

\* warning cuts that keep the false-positive rate under the ceiling
Feasible(win) ==
    { w \in GridCuts : ~FracLess(FPCeiling, FalsePositiveRate(w, win)) }

\* among them, those of maximal recall on the confirmed positives
BestWarning(win) ==
    { w \in Feasible(win) :
        \A v \in Feasible(win) :
            ~FracLess(TruePositiveRate(w, win), TruePositiveRate(v, win)) }

\* The pairs the grid search may select.  The objective does not order the
\* critical cut, so any grid value may come with an optimal warning cut.
GridSearch(win) == BestWarning(win) \X GridCuts

\* every selected pair is applied
CutsValidAlways(pair) == TRUE

\* critical_cut > warning_cut
CutsValid(pair) == FracLess(pair[1], pair[2])

ThresholdInit ==
    /\ threshold = [ warning_cut  |-> BootstrapWarningCut,
                     critical_cut |-> BootstrapCriticalCut,
                     fp_rate      |-> <<0, 1>>,
                     tp_rate      |-> <<0, 1>>,
                     last_updated |-> 0 ]
    /\ window = << >>
    /\ appliedIds = {}
    /\ outcome = "none"

\* A feedback item not seen before enters the window and the cuts are
\* recomputed.  Time is not counted: since the previous delivery any number
\* of the oldest items may have left the 7-day window.
ApplyFeedback(id, score, confirmed) ==
    \E n \in 0 .. Len(window) :
      LET win == Append(SubSeq(window, n + 1, Len(window)),
                        [ id |-> id, score |-> score,
                          confirmed |-> confirmed ])
      IN  /\ window' = win
          /\ appliedIds' = appliedIds \cup {id}
          /\ \/ /\ GridSearch(win) = {}
                /\ outcome' = "rejected"
                /\ UNCHANGED threshold
             \/ \E pair \in GridSearch(win) :
                  IF CutsValid(pair)
                  THEN /\ outcome' = "accepted"
                       /\ threshold' =
                            [ warning_cut  |-> pair[1],
                              critical_cut |-> pair[2],
                              fp_rate      |-> FalsePositiveRate(pair[1], win),
                              tp_rate      |-> TruePositiveRate(pair[1], win),
                              last_updated |-> id ]
                  ELSE /\ outcome' = "rejected"
                       /\ UNCHANGED threshold

\* every delivery is applied, whether or not its id was seen
FeedbackEveryDelivery(id, score, confirmed) ==
    ApplyFeedback(id, score, confirmed)

\* One delivery from the at-least-once feedback channel, deduplicated by id
Feedback(id, score, confirmed) ==
    IF id \in appliedIds
    THEN /\ outcome' = "duplicate"
         /\ UNCHANGED <<threshold, window, appliedIds>>
    ELSE ApplyFeedback(id, score, confirmed)

DeliverFeedback ==
    /\ \E id \in FeedbackIds, score \in ScoreGrid, confirmed \in BOOLEAN :
         Feedback(id, score, confirmed)
    /\ UNCHANGED <<mockVars, ensVars, drift, streamVars, uiVars, viewVars>>

(***************************************************************************)
(* DriftMonitor                                                            *)
(***************************************************************************)
\* divergence above which a check counts as over threshold
DriftThreshold == <<1, 2>>

\* consecutive over-threshold checks needed to raise DriftDetected
Hysteresis == 2

Features == 1 .. NumFeatures

\* one divergence statistic per feature, each dv / ScoreDen
Divergences == [ Features -> ScoreGrid ]

\* the per-feature statistics aggregated to one drift score: their mean
DriftScore(dvs) == << SetSum(dvs, Features), NumFeatures * ScoreDen >>

DriftInit ==
    drift = [ current     |-> [ f \in Features |-> 0 ],
              divergence  |-> <<0, 1>>,
              consecutive |-> 0,
              lastOver    |-> FALSE,
              prevOver    |-> FALSE,
              raised      |-> FALSE ]

\* DriftDetected as soon as one check is over threshold
DriftRaisedAtOnce(consecutive) == consecutive >= 1

DriftRaised(consecutive) == consecutive >= Hysteresis

\* One periodic check of the current feature distributions against the
\* reference.  lastOver and prevOver record the outcomes of the last two
\* checks.
DriftCheck(dvs) ==
    LET over == FracLess(DriftThreshold, DriftScore(dvs))
        cnt  == IF over THEN drift.consecutive + 1 ELSE 0
    IN  /\ cnt <= MaxConsecutive
        /\ drift' = [ current     |-> dvs,
                      divergence  |-> DriftScore(dvs),
                      consecutive |-> cnt,
                      lastOver    |-> over,
                      prevOver    |-> drift.lastOver,
                      raised      |-> DriftRaised(cnt) ]

CheckDrift ==
    /\ \E dvs \in Divergences : DriftCheck(dvs)
    /\ UNCHANGED <<mockVars, ensVars, thrVars, streamVars, uiVars, viewVars>>

\* One asset with both of its supporting components at work: operator
\* feedback on its alerts and the periodic drift checks, in any order.
\* The features of the asset drift alike.
AssetFeedbackIds == 1 .. MaxAssetFeedback

UniformDivergences == { [ f \in Features |-> dv ] : dv \in ScoreGrid }

AssetFeedback ==
    /\ \E id \in AssetFeedbackIds, score \in ScoreGrid, confirmed \in BOOLEAN :
         Feedback(id, score, confirmed)
    /\ UNCHANGED <<mockVars, ensVars, drift, streamVars, uiVars, viewVars>>

\* a raised DriftDetected puts the bootstrap cuts back
AssetDriftCheckRecalibrates ==
    /\ \E dvs \in UniformDivergences : DriftCheck(dvs)
    /\ threshold' = IF drift'.raised
                    THEN [ threshold EXCEPT
                             !.warning_cut = BootstrapWarningCut,
                             !.critical_cut = BootstrapCriticalCut ]
                    ELSE threshold
    /\ UNCHANGED <<window, appliedIds, outcome>>
    /\ UNCHANGED <<mockVars, ensVars, streamVars, uiVars, viewVars>>

\* the signal is advisory: the check writes the drift state only
AssetDriftCheck ==
    /\ \E dvs \in UniformDivergences : DriftCheck(dvs)
    /\ UNCHANGED <<mockVars, ensVars, thrVars, streamVars, uiVars, viewVars>>

AssetNext == AssetFeedback \/ AssetDriftCheck

ThrNext == DeliverFeedback

DriftNext == CheckDrift

(***************************************************************************)
(* The prediction stream: createDataStream, fetchPrediction, the axios     *)
(* client of services/api.ts and the callback of usePredictions.           *)
(*                                                                         *)
(* A tick's handler runs up to its await in one step.  When the request    *)
(* settles, the continuations of api.post, fetchPrediction and the handler *)
(* run as microtasks of one task, so request settlement up to the return   *)
(* of callback(prediction) is one step.  The clock is not counted: the     *)
(* client's 30 s timer of a request in flight may fire at any time.        *)
(***************************************************************************)
TickIds == 1 .. MaxTicks

\* predictionHistory keeps the last 100
HistoryLimit == 100

NoRequest ==
    [ http |-> "none", fetch |-> "none", source |-> "none", callbacks |-> 0 ]

\* systemHealth: null and currentPrediction: null
Null == 0

StoreInit ==
    [ isConnected |-> FALSE, systemHealth |-> Null,
      currentPrediction |-> Null, predictionHistory |-> << >>,
      notifications |-> << >> ]

Prefix(seq, n) == SubSeq(seq, 1, Min(n, Len(seq)))

setCurrentPrediction(st, prediction) ==
    [ st EXCEPT !.currentPrediction = prediction ]

\* [prediction, ...state.predictionHistory].slice(0, 101)
addToHistoryOffByOne(st, prediction) ==
    [ st EXCEPT !.predictionHistory =
          Prefix(<<prediction>> \o st.predictionHistory, HistoryLimit + 1) ]

\* [prediction, ...state.predictionHistory].slice(0, 100)
addToHistory(st, prediction) ==
    [ st EXCEPT !.predictionHistory =
          Prefix(<<prediction>> \o st.predictionHistory, HistoryLimit) ]

clearHistory(st) == [ st EXCEPT !.predictionHistory = << >> ]

\* a callback that only records the prediction in the history
CallbackHistoryOnly(st, prediction) == addToHistory(st, prediction)

\* usePredictions: setCurrentPrediction(prediction); addToHistory(prediction)
Callback(st, prediction) ==
    addToHistory(setCurrentPrediction(st, prediction), prediction)

StreamInit ==
    /\ stream = "running"
    /\ ticks = 0
    /\ req = [ i \in TickIds |-> NoRequest ]
    /\ store = StoreInit

\* setInterval fires: generateSyntheticSensorData(), then fetchPrediction
\* posts the request and the handler waits for it
IntervalTick ==
    /\ stream = "running"
    /\ ticks < MaxTicks
    /\ ticks' = ticks + 1
    /\ req' = [ req EXCEPT ![ticks + 1] =
                  [ http |-> "inflight", fetch |-> "pending",
                    source |-> "none", callbacks |-> 0 ] ]
    /\ UNCHANGED <<stream, store>>
    /\ UNCHANGED <<mockVars, ensVars, thrVars, drift, uiVars, viewVars>>

\* fetchPrediction returns a value v taken from `source`; the handler calls
\* callback with it
Settle(i, http, source) ==
    /\ req' = [ req EXCEPT ![i] =
                  [ http |-> http, fetch |-> "resolved",
                    source |-> source, callbacks |-> req[i].callbacks + 1 ] ]
    /\ store' = Callback(store, i)
    /\ UNCHANGED <<stream, ticks>>
    /\ UNCHANGED <<mockVars, ensVars, thrVars, drift, uiVars, viewVars>>

\* the catch block rethrows: fetchPrediction rejects, and so does the
\* handler before it reaches callback
Rethrow(i, http) ==
    /\ req' = [ req EXCEPT ![i] =
                  [ http |-> http, fetch |-> "rejected",
                    source |-> "none", callbacks |-> req[i].callbacks ] ]
    /\ UNCHANGED <<stream, ticks, store>>
    /\ UNCHANGED <<mockVars, ensVars, thrVars, drift, uiVars, viewVars>>

\* the catch block of fetchPrediction: return generateMockPrediction()
CatchBlock(i, http) == Settle(i, http, "mock")

\* 2xx response: return response
ApiResolves(i) ==
    /\ req[i].http = "inflight"
    /\ Settle(i, "ok", "api")

\* error status or network error: axios rejects, the catch block runs
ApiRejects(i) ==
    /\ req[i].http = "inflight"
    /\ \E kind \in {"status", "network"} : CatchBlock(i, kind)

\* a client without a timeout: the timer never fires
NoTimeout(i) ==
    /\ FALSE
    /\ UNCHANGED vars

\* timeout: 30000 elapsed without a response: axios aborts and rejects
ApiTimesOut(i) ==
    /\ req[i].http = "inflight"
    /\ CatchBlock(i, "timeout")

\* the function returned by createDataStream: clearInterval(interval)
Cleanup ==
    /\ stream = "running"
    /\ stream' = "stopped"
    /\ UNCHANGED <<ticks, req, store>>
    /\ UNCHANGED <<mockVars, ensVars, thrVars, drift, uiVars, viewVars>>

Next ==
    \/ IntervalTick
    \/ \E i \in TickIds : ApiResolves(i)
    \/ \E i \in TickIds : ApiRejects(i)
    \/ \E i \in TickIds : ApiTimesOut(i)
    \/ Cleanup

(***************************************************************************)
(* Specification SpecMock: the mock prediction path.  The API is down, so  *)
(* every tick of the stream delivers generateMockPrediction() to the       *)
(* store, and RealTimeMonitor re-renders from the store.                   *)
(***************************************************************************)
MockInit ==
    /\ mockPrediction = NoPrediction
    /\ monitor = NotRendered

(***************************************************************************)
(* generateSyntheticSensorData and calculateFFT.  Sample i is taken at     *)
(* time i / samplingRate, so a tone of f Hz is evaluated at the angle      *)
(* 2 pi f i / samplingRate, which is (4 f / samplingRate) * i quarter      *)
(* turns.  For the four tones of the generator 4 f / samplingRate is an    *)
(* integer, and the sine of a whole number of quarter turns is exact.      *)
(* Amplitudes are in hundredths.                                           *)
(***************************************************************************)
DataPoints == 200

SamplingRate == 20

Samples == 0 .. (DataPoints - 1)

\* Math.sin at q quarter turns
SinQuarterTurns(q) ==
    CASE q % 4 = 0 -> 0
      [] q % 4 = 1 -> 1
      [] q % 4 = 2 -> 0
      [] q % 4 = 3 -> -1

\* Math.sin(2 * Math.PI * f * time) * amp, with time = i / samplingRate
Tone(f, amp, i) == amp * SinQuarterTurns(((4 * f) \div SamplingRate) * i)

\* the generator's tones fall on whole quarter turns
OnQuarterTurns(f) == (4 * f) % SamplingRate = 0

\* mainFreq + harmonic1 + harmonic2
Carrier(i) == Tone(30, 150, i) + Tone(60, 40, i) + Tone(90, 20, i)

\* spike of the anomalous branch
Spike(i) == Tone(120, 120, i)

\* The values the tones take over the 200 samples.  What is left of
\* signal[i] is noise * modulation, with noise = (Math.random() - 0.5) * 0.15
\* and modulation between 0.5 and 1.5.
ToneValues(anomalous) ==
    { Carrier(i) : i \in Samples } \cup
    (IF anomalous THEN { Spike(i) : i \in Samples } ELSE {})

\* calculateFFT: for (k = 0; k < N / 2; k++)
Bins == 0 .. ((DataPoints \div 2) - 1)

\* freq = k * samplingRate / N, here times N
BinFrequencyTimesN(k) == k * SamplingRate

\* f Hz lies no further than one bin width from bin k
WithinOneBin(k, f) ==
    /\ k * SamplingRate - f * DataPoints <= SamplingRate
    /\ f * DataPoints - k * SamplingRate <= SamplingRate

\* waveform = generateSyntheticSensorData(anomalous), then
\* spectrum = calculateFFT(waveform, 20).  With tones that vanish the
\* magnitudes are those of the noise, and the noise draws decide which
\* bin above DC is the largest.
Spectrum(anomalous, largest) ==
    [ generated |-> TRUE,
      anomalous |-> anomalous,
      tones     |-> ToneValues(anomalous),
      bins      |-> Bins,
      largest   |-> largest ]

GenerateWaveform ==
    /\ \A f \in {30, 60, 90, 120} : OnQuarterTurns(f)
    /\ \E anomalous \in BOOLEAN, largest \in Bins \ {0} :
         waveform' = Spectrum(anomalous, largest)
    /\ UNCHANGED <<features, log, healthVars>>
    /\ UNCHANGED <<mockVars, ensVars, thrVars, drift, streamVars, viewVars>>

WaveformNext == GenerateWaveform

(***************************************************************************)
(* generateMockPrediction: the features object.  Of its six independent    *)
(* draws the three that enter the crest factor are kept: rms, peak and     *)
(* crest_factor (kurtosis, skewness and energy are drawn the same way).    *)
(***************************************************************************)
MockFeatures(kr, kp, kc) ==
    [ generated    |-> TRUE,
      rms          |-> Draw(20000, 15000, kr),
      peak         |-> Draw(70000, 30000, kp),
      crest_factor |-> Draw(30000, 10000, kc) ]

GenerateFeatures ==
    /\ \E kr \in Rand, kp \in Rand, kc \in Rand :
         features' = MockFeatures(kr, kp, kc)
    /\ UNCHANGED <<waveform, log, healthVars>>
    /\ UNCHANGED <<mockVars, ensVars, thrVars, drift, streamVars, viewVars>>

FeaturesNext == GenerateFeatures

NoFeatures == [ generated |-> FALSE ]

NoWaveform == [ generated |-> FALSE ]

\* log counts the calls made on the store: added and notified number the
\* addToHistory and addNotification calls, clearedAt is the value of added
\* at the last clearHistory, removed counts the removeNotification calls.
LogInit ==
    [ added |-> 0, clearedAt |-> 0, notified |-> 0, removed |-> 0, now |-> 0 ]

(***************************************************************************)
(* The prediction history of the store.  The n-th prediction added is      *)
(* written n.                                                              *)
(***************************************************************************)
AddToHistory ==
    /\ log.added < MaxAdds
    /\ store' = addToHistory(store, log.added + 1)
    /\ log' = [ log EXCEPT !.added = log.added + 1 ]
    /\ UNCHANGED <<stream, ticks, req, dataVars, healthVars>>
    /\ UNCHANGED <<mockVars, ensVars, thrVars, drift, viewVars>>

ClearHistory ==
    /\ store' = clearHistory(store)
    /\ log' = [ log EXCEPT !.clearedAt = log.added ]
    /\ UNCHANGED <<stream, ticks, req, dataVars, healthVars>>
    /\ UNCHANGED <<mockVars, ensVars, thrVars, drift, viewVars>>

HistoryNext == AddToHistory \/ ClearHistory

\* the stream callback of usePredictions delivers the n-th prediction
DeliverPrediction ==
    /\ log.added < MaxAdds
    /\ store' = Callback(store, log.added + 1)
    /\ log' = [ log EXCEPT !.added = log.added + 1 ]
    /\ UNCHANGED <<stream, ticks, req, dataVars, healthVars>>
    /\ UNCHANGED <<mockVars, ensVars, thrVars, drift, viewVars>>

\* the stream delivering into a store whose history may be cleared
CallbackNext == DeliverPrediction \/ ClearHistory

(***************************************************************************)
(* The notifications of the store.  A notification's id is the pair of     *)
(* Date.now() and Math.random() that the template string joins.  The n-th  *)
(* addNotification call is made at time n with the n-th payload: the four  *)
(* types in turn, and the message written n.                               *)
(***************************************************************************)
NotificationLimit == 50

NotificationTypes == <<"info", "warning", "error", "success">>

Payload(n) ==
    [ type    |-> NotificationTypes[(n % Len(NotificationTypes)) + 1],
      message |-> n ]

Stored(notification, now, rnd) ==
    [ type      |-> notification.type,
      message   |-> notification.message,
      id        |-> <<now, rnd>>,
      timestamp |-> now ]

\* [...state.notifications, {...}].slice(0, 50)
addNotificationAtEnd(st, notification, now, rnd) ==
    [ st EXCEPT !.notifications =
          Prefix(st.notifications \o <<Stored(notification, now, rnd)>>,
                 NotificationLimit) ]

\* [{...notification, id, timestamp}, ...state.notifications].slice(0, 50)
addNotification(st, notification, now, rnd) ==
    [ st EXCEPT !.notifications =
          Prefix(<<Stored(notification, now, rnd)>> \o st.notifications,
                 NotificationLimit) ]

\* state.notifications.filter((n) => n.id !== id)
removeNotification(st, id) ==
    LET Keep(n) == n.id # id
    IN  [ st EXCEPT !.notifications = SelectSeq(st.notifications, Keep) ]

\* an id no notification carries
NoSuchId == <<0, 0>>

AddNotification ==
    /\ log.notified < MaxNotified
    /\ LET n == log.notified + 1
       IN  /\ store' = addNotification(store, Payload(n), n, n % RandDen)
           /\ log' = [ log EXCEPT !.notified = n ]
    /\ UNCHANGED <<stream, ticks, req, dataVars, healthVars>>
    /\ UNCHANGED <<mockVars, ensVars, thrVars, drift, viewVars>>

RemoveNotification ==
    /\ log.removed < MaxRemovals
    /\ \E id \in { store.notifications[i].id :
                       i \in DOMAIN store.notifications } \cup {NoSuchId} :
         store' = removeNotification(store, id)
    /\ log' = [ log EXCEPT !.removed = log.removed + 1 ]
    /\ UNCHANGED <<stream, ticks, req, dataVars, healthVars>>
    /\ UNCHANGED <<mockVars, ensVars, thrVars, drift, viewVars>>

NotificationsNext == AddNotification \/ RemoveNotification

\* addNotification with the clock and the random draw left open: Date.now()
\* is the millisecond of the previous call or the next one (1 or 2 for the
\* first call), Math.random() is any draw
AddNotificationAnyId ==
    /\ log.notified < MaxIdAdds
    /\ \E now \in { Max(log.now, 1), log.now + 1 }, rnd \in Rand :
         /\ store' = addNotification(store, Payload(log.notified + 1), now, rnd)
         /\ log' = [ log EXCEPT !.notified = log.notified + 1, !.now = now ]
    /\ UNCHANGED <<stream, ticks, req, dataVars, healthVars>>
    /\ UNCHANGED <<mockVars, ensVars, thrVars, drift, viewVars>>

NotificationIdsNext == AddNotificationAnyId \/ RemoveNotification

(***************************************************************************)
(* useHealthCheck: useQuery({ queryKey: ['health'], queryFn: getHealth,    *)
(* refetchInterval, retry: 3 }) and the effect that copies the query into  *)
(* the store.                                                              *)
(*                                                                         *)
(* The query keeps the data of its last successful fetch when a later      *)
(* fetch fails: a failed refetch sets error and status and leaves data     *)
(* alone, and a successful fetch sets data and clears error.  A fetch is   *)
(* retried while its failure count is below retry.  The effect runs after  *)
(* a render in which query.data or query.error differs from the values of  *)
(* its last run; its two setter calls are two store updates.  An effect    *)
(* that is due runs before the next fetch result arrives.                  *)
(***************************************************************************)
HealthResponses == 1 .. MaxResponses

\* retry: 3
Retry == 3

QueryInit ==
    [ status |-> "pending", fetchStatus |-> "fetching", data |-> Null,
      error |-> FALSE, failureCount |-> 0 ]

\* the dependency array [query.data, query.error]
Deps(q) == <<q.data, q.error>>

HookInit ==
    [ mounted |-> TRUE, effect |-> "idle", deps |-> Deps(QueryInit),
      last |-> "none", prev |-> "none" ]

EffectDue == hook.mounted /\ hook.effect = "idle" /\ Deps(query) # hook.deps

EffectQuiet == hook.mounted /\ hook.effect = "idle" /\ Deps(query) = hook.deps

setSystemHealth(st, health) == [ st EXCEPT !.systemHealth = health ]

setConnected(st, connected) == [ st EXCEPT !.isConnected = connected ]

Outcome(result) == [ hook EXCEPT !.last = result, !.prev = hook.last ]

\* the refetch timer stops once the query is in error
RefetchIntervalUntilError ==
    /\ EffectQuiet
    /\ query.fetchStatus = "idle"
    /\ query.status # "error"
    /\ query' = [ query EXCEPT !.fetchStatus = "fetching",
                               !.failureCount = 0 ]
    /\ UNCHANGED <<hook, store, log, dataVars, stream, ticks, req>>
    /\ UNCHANGED <<mockVars, ensVars, thrVars, drift, viewVars>>

\* The refetch timer fires and a health check is issued.  A query that has
\* no data yet goes back to pending and drops its error.
RefetchInterval ==
    /\ EffectQuiet
    /\ query.fetchStatus = "idle"
    /\ query' = IF query.data = Null
                THEN [ query EXCEPT !.fetchStatus = "fetching",
                                    !.failureCount = 0,
                                    !.status = "pending",
                                    !.error = FALSE ]
                ELSE [ query EXCEPT !.fetchStatus = "fetching",
                                    !.failureCount = 0 ]
    /\ UNCHANGED <<hook, store, log, dataVars, stream, ticks, req>>
    /\ UNCHANGED <<mockVars, ensVars, thrVars, drift, viewVars>>

\* apiService.getHealth() resolves with response h
HealthResolves(h) ==
    /\ EffectQuiet
    /\ query.fetchStatus = "fetching"
    /\ query' = [ status |-> "success", fetchStatus |-> "idle", data |-> h,
                  error |-> FALSE, failureCount |-> 0 ]
    /\ hook' = Outcome("success")
    /\ UNCHANGED <<store, log, dataVars, stream, ticks, req>>
    /\ UNCHANGED <<mockVars, ensVars, thrVars, drift, viewVars>>

\* apiService.getHealth() rejects (network error, error status, or the
\* client's timeout): retried up to Retry times, then the check has failed
HealthRejects ==
    /\ EffectQuiet
    /\ query.fetchStatus = "fetching"
    /\ IF query.failureCount < Retry
       THEN /\ query' = [ query EXCEPT
                            !.failureCount = query.failureCount + 1 ]
            /\ UNCHANGED hook
       ELSE /\ query' = [ query EXCEPT
                            !.status = "error", !.fetchStatus = "idle",
                            !.error = TRUE,
                            !.failureCount = query.failureCount + 1 ]
            /\ hook' = Outcome("failure")
    /\ UNCHANGED <<store, log, dataVars, stream, ticks, req>>
    /\ UNCHANGED <<mockVars, ensVars, thrVars, drift, viewVars>>

\* the effect up to its first setter call
\* the effect with the success branch's two setter calls in the other order
EffectFirstConnectFirst ==
    /\ EffectDue
    /\ IF query.data # Null
       THEN /\ store' = setConnected(store, TRUE)
            /\ hook' = [ hook EXCEPT !.effect = "connect" ]
       ELSE IF query.error
       THEN /\ store' = setConnected(store, FALSE)
            /\ hook' = [ hook EXCEPT !.effect = "clear" ]
       ELSE /\ hook' = [ hook EXCEPT !.deps = Deps(query) ]
            /\ UNCHANGED store
    /\ UNCHANGED <<query, log, dataVars, stream, ticks, req>>
    /\ UNCHANGED <<mockVars, ensVars, thrVars, drift, viewVars>>

EffectFirst ==
    /\ EffectDue
    /\ IF query.data # Null
       THEN /\ store' = setSystemHealth(store, query.data)
            /\ hook' = [ hook EXCEPT !.effect = "connect" ]
       ELSE IF query.error
       THEN /\ store' = setConnected(store, FALSE)
            /\ hook' = [ hook EXCEPT !.effect = "clear" ]
       ELSE /\ hook' = [ hook EXCEPT !.deps = Deps(query) ]
            /\ UNCHANGED store
    /\ UNCHANGED <<query, log, dataVars, stream, ticks, req>>
    /\ UNCHANGED <<mockVars, ensVars, thrVars, drift, viewVars>>

\* the effect's second setter call
EffectSecond ==
    /\ hook.effect # "idle"
    /\ store' = IF hook.effect = "connect"
                THEN setConnected(store, TRUE)
                ELSE setSystemHealth(store, Null)
    /\ hook' = [ hook EXCEPT !.effect = "idle", !.deps = Deps(query) ]
    /\ UNCHANGED <<query, log, dataVars, stream, ticks, req>>
    /\ UNCHANGED <<mockVars, ensVars, thrVars, drift, viewVars>>

\* the component using the hook unmounts: the query loses its observer
Unmount ==
    /\ EffectQuiet
    /\ hook' = [ hook EXCEPT !.mounted = FALSE ]
    /\ UNCHANGED <<query, store, log, dataVars, stream, ticks, req>>
    /\ UNCHANGED <<mockVars, ensVars, thrVars, drift, viewVars>>

\* AppContent, rendered with the query and the store as they are when the
\* query or isConnected changes: before the effect of that render runs
AppContent(q, st) ==
    IF q.status = "pending" /\ q.fetchStatus = "fetching"
    THEN "Connecting to server..."
    ELSE IF q.error \/ ~st.isConnected THEN "Connection Error"
    ELSE "dashboard"

HealthNext ==
    \/ RefetchInterval
    \/ \E h \in HealthResponses : HealthResolves(h)
    \/ HealthRejects
    \/ EffectFirst
    \/ EffectSecond
    \/ Unmount

(***************************************************************************)
(* GET /api/health and the status indicator in the header of               *)
(* DashboardLayout.  The backend holds the three models of the ensemble;   *)
(* its response lists each with its loaded flag and carries the status     *)
(* the API documents for them.  The header is rendered from the response   *)
(* the health query holds.                                                 *)
(***************************************************************************)
NoHealthData == [ status |-> "none", models |-> [ m \in Detectors |-> FALSE ] ]

Hidden == [ colour |-> "none", label |-> "none", of |-> NoHealthData ]

PanelInit ==
    [ loaded    |-> [ m \in Detectors |-> FALSE ],
      health    |-> NoHealthData,
      indicator |-> Hidden ]

\* healthy: all models loaded; degraded: some; unhealthy: none
StatusOf(loaded) ==
    IF \A m \in Detectors : loaded[m] THEN "healthy"
    ELSE IF \E m \in Detectors : loaded[m] THEN "degraded"
    ELSE "unhealthy"

HealthResponseOf(loaded) == [ status |-> StatusOf(loaded), models |-> loaded ]

\* no yellow: anything but 'unhealthy' is shown green
IndicatorColourTwoWay(status) ==
    IF status = "unhealthy" THEN "bg-red-500" ELSE "bg-green-500"

\* health.status === 'healthy' ? green : === 'degraded' ? yellow : red
IndicatorColour(status) ==
    IF status = "healthy" THEN "bg-green-500"
    ELSE IF status = "degraded" THEN "bg-yellow-500"
    ELSE "bg-red-500"

\* {health && ( ... )}
Indicator(health) ==
    IF health = NoHealthData THEN Hidden
    ELSE [ colour |-> IndicatorColour(health.status),
           label  |-> health.status,
           of     |-> health ]

\* the inference service loads or drops a model
ModelChanges ==
    /\ \E m \in Detectors :
         panel' = [ panel EXCEPT !.loaded[m] = ~panel.loaded[m] ]
    /\ UNCHANGED <<stats, chart, uiVars, streamVars>>
    /\ UNCHANGED <<mockVars, ensVars, thrVars, drift>>

\* a health check resolves with the server's response
ServeHealth ==
    /\ panel' = [ panel EXCEPT !.health = HealthResponseOf(panel.loaded) ]
    /\ UNCHANGED <<stats, chart, uiVars, streamVars>>
    /\ UNCHANGED <<mockVars, ensVars, thrVars, drift>>

\* DashboardLayout renders its header from the query's data
RenderHeader ==
    /\ panel' = [ panel EXCEPT !.indicator = Indicator(panel.health) ]
    /\ UNCHANGED <<stats, chart, uiVars, streamVars>>
    /\ UNCHANGED <<mockVars, ensVars, thrVars, drift>>

PanelNext == ModelChanges \/ ServeHealth \/ RenderHeader

(***************************************************************************)
(* calculateFeatureStats.  A prediction is kept by the three fields the    *)
(* function reads: health_score (in 1 / ScoreDen), temperature (degrees)   *)
(* and is_anomaly.  A JavaScript number is a record that is either NaN or  *)
(* a value; x / 0 with x = 0 is NaN.                                       *)
(***************************************************************************)
NaN == [ nan |-> TRUE, value |-> 0 ]

Num(v) == [ nan |-> FALSE, value |-> v ]

\* Number((n / d * scale).toFixed(...)), in units of the last digit kept;
\* n >= 0 and d >= 0, and n = 0 when d = 0
FixedQuotient(n, d, scale) ==
    IF d = 0 THEN NaN ELSE Num((2 * n * scale + d) \div (2 * d))

Temperatures == {38, 46}

StatPredictions ==
    [ health_score : ScoreGrid, temperature : Temperatures,
      is_anomaly : BOOLEAN ]

StatInputs ==
    UNION { [ 1 .. n -> StatPredictions ] : n \in 0 .. MaxStatsLen }

\* predictions.slice(1, Math.min(predictions.length, 100))
StatHistory(predictions) ==
    SubSeq(predictions, 2, Min(Len(predictions), 100))

SeqSum(f, n) == SetSum(f, 1 .. n)

calculateFeatureStats(predictions) ==
    IF Len(predictions) = 0 THEN [ isNull |-> TRUE ]
    ELSE
      LET history == StatHistory(predictions)
          n       == Len(history)
          count   == Cardinality({ i \in 1 .. n : history[i].is_anomaly })
      IN  [ isNull         |-> FALSE,
            latest         |-> predictions[1],
            avgHealthScore |->
                FixedQuotient(SeqSum([ i \in 1 .. n |-> history[i].health_score ], n),
                              n * ScoreDen, 1000),
            avgTemperature |->
                FixedQuotient(SeqSum([ i \in 1 .. n |-> history[i].temperature ], n),
                              n, 10),
            anomalyCount   |-> count,
            anomalyRate    |-> FixedQuotient(count, n, 1000) ]

CalculateStats ==
    /\ \E predictions \in StatInputs :
         stats' = [ called |-> TRUE, input |-> predictions,
                    result |-> calculateFeatureStats(predictions) ]
    /\ UNCHANGED <<panel, chart, uiVars, streamVars>>
    /\ UNCHANGED <<mockVars, ensVars, thrVars, drift>>

StatsNext == CalculateStats

(***************************************************************************)
(* SpectrumChart: the peaks found in the magnitudes and the marker trace.  *)
(* Magnitudes are exact; frequencies[i] is the frequency of bin i in units *)
(* of the bin width.                                                       *)
(***************************************************************************)
Magnitudes == {0, 1, 2, 4}

BinFrequencies(n) == [ i \in 1 .. n |-> i - 1 ]

\* Math.max(...magnitudes)
RECURSIVE MaxOf(_, _)
MaxOf(magnitudes, n) ==
    IF n = 1 THEN magnitudes[1]
    ELSE Max(MaxOf(magnitudes, n - 1), magnitudes[n])

\* magnitudes[i] > Math.max(...magnitudes) * 0.3
AboveThreshold(magnitudes, i) ==
    10 * magnitudes[i] > 3 * MaxOf(magnitudes, Len(magnitudes))

\* the loop over the interior bins from bin i on (bins are numbered from 1)
RECURSIVE FindPeaks(_, _, _)
FindPeaks(frequencies, magnitudes, i) ==
    IF i > Len(magnitudes) - 1 THEN <<>>
    ELSE LET rest == FindPeaks(frequencies, magnitudes, i + 1)
         IN  IF /\ magnitudes[i] > magnitudes[i - 1]
                /\ magnitudes[i] > magnitudes[i + 1]
                /\ AboveThreshold(magnitudes, i)
             THEN <<[ freq |-> frequencies[i], mag |-> magnitudes[i] ]>> \o rest
             ELSE rest

\* a sort that puts the smallest magnitude first
InsertByMagnitudeAscending(sorted, p) ==
    LET before == Cardinality({ j \in 1 .. Len(sorted) : sorted[j].mag <= p.mag })
    IN  SubSeq(sorted, 1, before) \o <<p>> \o SubSeq(sorted, before + 1, Len(sorted))

\* the place of p in a list sorted by (a, b) => b.mag - a.mag; the sort is
\* stable, so p goes behind the peaks of equal magnitude pushed before it
InsertByMagnitude(sorted, p) ==
    LET before == Cardinality({ j \in 1 .. Len(sorted) : sorted[j].mag >= p.mag })
    IN  SubSeq(sorted, 1, before) \o <<p>> \o SubSeq(sorted, before + 1, Len(sorted))

RECURSIVE SortByMagnitude(_, _)
SortByMagnitude(peaks, n) ==
    IF n = 0 THEN <<>>
    ELSE InsertByMagnitude(SortByMagnitude(peaks, n - 1), peaks[n])

\* peaks.splice(3)
Splice3(peaks) == SubSeq(peaks, 1, Min(Len(peaks), 3))

Peaks(frequencies, magnitudes, showPeaks) ==
    IF showPeaks /\ Len(magnitudes) > 2
    THEN LET found == FindPeaks(frequencies, magnitudes, 2)
         IN  Splice3(SortByMagnitude(found, Len(found)))
    ELSE <<>>

\* the 'Peaks' trace: its markers, or none when the trace is not added
PeakMarkers(peaks, showPeaks) ==
    IF showPeaks /\ Len(peaks) > 0 THEN peaks ELSE <<>>

\* a SpectrumChart that has its spectrum and has not rendered yet
ChartProps(magnitudes) ==
    [ rendered    |-> FALSE,
      frequencies |-> BinFrequencies(Len(magnitudes)),
      magnitudes  |-> magnitudes ]

RenderSpectrumChart ==
    /\ ~chart.rendered
    /\ chart # [ rendered |-> FALSE ]
    /\ \E showPeaks \in BOOLEAN :
         chart' = [ rendered    |-> TRUE,
                    frequencies |-> chart.frequencies,
                    magnitudes  |-> chart.magnitudes,
                    showPeaks   |-> showPeaks,
                    markers     |->
                        PeakMarkers(Peaks(chart.frequencies, chart.magnitudes,
                                          showPeaks), showPeaks) ]
    /\ UNCHANGED <<panel, stats, uiVars, streamVars>>
    /\ UNCHANGED <<mockVars, ensVars, thrVars, drift>>

ChartNext == RenderSpectrumChart

NoStats == [ called |-> FALSE ]

NoChart == [ rendered |-> FALSE ]

UiInit ==
    /\ panel = PanelInit
    /\ stats = NoStats
    /\ chart = NoChart
    /\ features = NoFeatures
    /\ waveform = NoWaveform
    /\ log = LogInit
    /\ query = QueryInit
    /\ hook = HookInit

Init ==
    MockInit /\ EnsInit /\ ThresholdInit /\ DriftInit /\ StreamInit /\ UiInit

\* a SpectrumChart mounted with some spectrum, everything else as constructed
ChartInit ==
    /\ MockInit /\ EnsInit /\ ThresholdInit /\ DriftInit /\ StreamInit
    /\ panel = PanelInit
    /\ stats = NoStats
    /\ \E n \in 0 .. MaxBins : \E magnitudes \in [ 1 .. n -> Magnitudes ] :
         chart = ChartProps(magnitudes)
    /\ features = NoFeatures
    /\ waveform = NoWaveform
    /\ log = LogInit
    /\ query = QueryInit
    /\ hook = HookInit

\* fetchPrediction's catch branch followed by setCurrentPrediction.  The
\* store update invalidates the rendered view; React renders again before
\* the next timer callback runs.
MockTick ==
    \E k0 \in Rand, k1 \in Rand, k2 \in Rand, k3 \in Rand :
        /\ monitor.shown
        /\ mockPrediction' = GenerateMockPrediction(k0, k1, k2, k3)
        /\ monitor' = NotRendered
        /\ UNCHANGED <<ensVars, thrVars, drift, streamVars, uiVars, viewVars>>

\* a render of RealTimeMonitor with the store's currentPrediction
RenderMonitor ==
    /\ ~monitor.shown
    /\ monitor' = RenderOf(mockPrediction)
    /\ UNCHANGED mockPrediction
    /\ UNCHANGED <<ensVars, thrVars, drift, streamVars, uiVars, viewVars>>

MockNext == MockTick \/ RenderMonitor

Spec == Init /\ [][Next]_vars

\* The runtime fires the timeout timer of a request that stays in flight.
\* Nothing is assumed of the server, of the interval or of cleanup.
FairSpec == Spec /\ \A i \in TickIds : WF_vars(ApiTimesOut(i))

SpecMock == Init /\ [][MockNext]_vars

SpecEnsemble == Init /\ [][EnsNext]_vars

\* Every detector call is bounded by its own timeout, so the timer of a
\* detector that stays running fires; the scorer combines once it is able
\* to.  Nothing is assumed of the detectors or of the arrival of ticks.
FairSpecEnsemble ==
    /\ SpecEnsemble
    /\ \A d \in Detectors : WF_vars(DetectorTimesOut(d))
    /\ WF_vars(CombineTick)

SpecThreshold == Init /\ [][ThrNext]_vars

SpecDrift == Init /\ [][DriftNext]_vars

SpecWaveform == Init /\ [][WaveformNext]_vars

SpecHistory == Init /\ [][HistoryNext]_vars

SpecCallback == Init /\ [][CallbackNext]_vars

SpecPanel == Init /\ [][PanelNext]_vars

SpecStats == Init /\ [][StatsNext]_vars

SpecChart == ChartInit /\ [][ChartNext]_vars

SpecHealth == Init /\ [][HealthNext]_vars

\* While the hook is mounted and its page is in the foreground the refetch
\* timer fires, every request settles (the axios client rejects a request
\* after 30 s) and a due effect runs to its end.  Nothing is assumed of the
\* server.  The length of the interval is not counted.
FairSpecHealth ==
    /\ SpecHealth
    /\ WF_vars(RefetchInterval)
    /\ WF_vars(HealthRejects \/ \E h \in HealthResponses : HealthResolves(h))
    /\ WF_vars(EffectFirst)
    /\ WF_vars(EffectSecond)

SpecNotifications == Init /\ [][NotificationsNext]_vars

SpecNotificationIds == Init /\ [][NotificationIdsNext]_vars

SpecFeatures == Init /\ [][FeaturesNext]_vars

SpecAsset == Init /\ [][AssetNext]_vars

(***************************************************************************)
(* Claims checked under SpecMock                                           *)
(***************************************************************************)
HasPrediction == mockPrediction # NoPrediction

RiskOfAlert(level) ==
    CASE level = "normal"   -> "Low Risk"
      [] level = "warning"  -> "Medium Risk"
      [] level = "critical" -> "High Risk"

\* C2: every place that labels a score by severity uses the cuts 0.3 and
\* 0.7: the risk level RealTimeMonitor shows for a score is the documented
\* alert level of that score (normal < 0.3 <= warning < 0.7 <= critical).
C2_SameCutsEverywhere ==
    monitor.shown =>
        monitor.riskLevel = RiskOfAlert(AlertLevel(monitor.anomalyScore))

InHealthyBand(x) == Dec4(1000) <= x /\ x <= Dec4(2000)

HealthyWindow ==
    /\ HasPrediction
    /\ InHealthyBand(mockPrediction.raw.autoencoder)
    /\ InHealthyBand(mockPrediction.raw.isolation_forest)
    /\ InHealthyBand(mockPrediction.raw.lstm)

\* C6: under the default weights, a window whose three detector scores each
\* lie in [0.1, 0.2] has a composite below 0.3, computed and as reported,
\* and is classified normal.
C6_HealthyCompositeBelowWarning ==
    HealthyWindow =>
        /\ mockPrediction.raw.ensemble < Dec4(3000)
        /\ mockPrediction.ensemble_score < Dec4(3000)
        /\ AlertLevel(mockPrediction.ensemble_score) = "normal"

\* a healthy window at the top of the band: autoencoder 0.2, lstm 0.2
C6_Witness ==
    /\ HealthyWindow
    /\ mockPrediction.raw.autoencoder = Dec4(2000)
    /\ mockPrediction.raw.lstm = Dec4(2000)

\* C9: the reported health_score is 1 minus the reported ensemble_score.
C9_HealthIsComplement ==
    HasPrediction =>
        mockPrediction.health_score = Den - mockPrediction.ensemble_score

InUnit(x) == 0 <= x /\ x <= Den

\* C10: in both branches and for every draw, each reported detector score
\* and the reported ensemble score lie in [0,1].
C10_ScoresInUnitInterval ==
    HasPrediction =>
        /\ InUnit(mockPrediction.model_scores.autoencoder)
        /\ InUnit(mockPrediction.model_scores.isolation_forest)
        /\ InUnit(mockPrediction.model_scores.lstm)
        /\ InUnit(mockPrediction.ensemble_score)

\* the anomalous branch with the largest draw of every score
C10_Witness ==
    /\ HasPrediction
    /\ mockPrediction.isAnomalous
    /\ mockPrediction.raw.autoencoder = AutoencoderScore(TRUE, RandDen - 1)
    /\ mockPrediction.raw.isolation_forest = IsolationScore(TRUE, RandDen - 1)
    /\ mockPrediction.raw.lstm = LstmScore(TRUE, RandDen - 1)

(***************************************************************************)
(* Claims checked under SpecEnsemble                                       *)
(***************************************************************************)
Flagged(r) == { d \in Detectors : r.available[d] }

WeightedScores(r) ==
    [ d \in Detectors |-> FracMul(r.applied[d], <<r.scores[d], ScoreDen>>) ]

\* the composite of generateMockPrediction for the scores of a result
MockComposite(r) ==
    << EnsembleScore(10 * r.scores["autoencoder"],
                     10 * r.scores["isolation_forest"],
                     10 * r.scores["lstm"]),
       10 * ScoreDen >>

RenormalizedResult(w, r) ==
    LET S == Flagged(r)
    IN  /\ S # {}
        /\ \A d \in S : FracEq(r.applied[d], <<w[d], SetSum(w, S)>>)
        /\ \A d \in Detectors \ S : r.applied[d][1] = 0
        /\ FracEq(FracSetSum(r.applied, Detectors), <<1, 1>>)
        /\ FracEq(r.composite, FracSetSum(WeightedScores(r), S))
        /\ (S = Detectors /\ w = DefaultWeights)
              => FracEq(r.composite, MockComposite(r))

\* C1: whenever a tick is combined, the weights applied are the configured
\* weights divided by their sum over the available subset, they sum to 1,
\* the composite is the sum of applied weight times score over the
\* available detectors, and with all three available under the default
\* weights it is the 0.4/0.3/0.3 sum that generateMockPrediction computes.
C1_WeightsRenormalized ==
    [][(ensResult.kind = "pending" /\ ensResult'.kind = "composite")
          => RenormalizedResult(weights, ensResult')]_vars

\* a full ensemble under the default weights with three different scores
C1_Witness ==
    /\ ensResult.kind = "composite"
    /\ weights = DefaultWeights
    /\ Flagged(ensResult) = Detectors
    /\ ensResult.scores["autoencoder"] = ScoreDen
    /\ ensResult.scores["isolation_forest"] = 0
    /\ ensResult.scores["lstm"] = 1

TemporalLacksHistory == det["lstm"].status = "InsufficientHistoryError"

\* C5: a tick in which the temporal detector lacks history and the other
\* two score still yields a composite, built from those two with weights
\* that sum to 1; and in every result the availability flags are set for
\* exactly the detectors that scored and carry a non-zero applied weight.
C5_DegradedEnsembleVisible ==
    /\ ensResult.kind = "composite" =>
          /\ \A d \in Detectors :
                /\ ensResult.available[d] <=> det[d].status = "scored"
                /\ ensResult.available[d] <=> ensResult.applied[d][1] # 0
          /\ FracEq(FracSetSum(ensResult.applied, Flagged(ensResult)), <<1, 1>>)
          /\ FracEq(ensResult.composite,
                    FracSetSum(WeightedScores(ensResult), Flagged(ensResult)))
          /\ buffered < K => ~ensResult.available["lstm"]
    /\ ( /\ ensResult.kind \notin {"none", "pending"}
         /\ TemporalLacksHistory
         /\ det["autoencoder"].status = "scored"
         /\ det["isolation_forest"].status = "scored" )
          => /\ ensResult.kind = "composite"
             /\ Flagged(ensResult) = {"autoencoder", "isolation_forest"}

\* the two-detector ensemble while the temporal detector lacks history
C5_Witness ==
    /\ ensResult.kind = "composite"
    /\ TemporalLacksHistory
    /\ buffered < K
    /\ Flagged(ensResult) = {"autoencoder", "isolation_forest"}
    /\ ensResult.scores["autoencoder"] = ScoreDen
    /\ ensResult.scores["isolation_forest"] = 1

(***************************************************************************)
(* Claims checked under SpecThreshold and SpecDrift                        *)
(***************************************************************************)
CutsOrdered(th) == FracLess(th.warning_cut, th.critical_cut)

\* C3: after any sequence of feedback deliveries critical_cut > warning_cut
\* holds, and a delivery whose update is rejected leaves warning_cut and
\* critical_cut as they were.
C3_CriticalAboveWarning ==
    /\ []CutsOrdered(threshold)
    /\ [][outcome' = "rejected" =>
            /\ threshold'.warning_cut = threshold.warning_cut
            /\ threshold'.critical_cut = threshold.critical_cut]_vars

\* an update rejected after an earlier one had moved the cuts
C3_Witness ==
    /\ outcome = "rejected"
    /\ threshold.last_updated # 0
    /\ threshold.warning_cut # BootstrapWarningCut
    /\ Len(window) = 2

\* C4: DriftDetected is raised at a check only if that check and the one
\* before it were both over threshold, and a check under threshold resets
\* the consecutive count to 0 (so a spike that resolves raises nothing).
C4_DriftHysteresis ==
    /\ drift.raised => (drift.lastOver /\ drift.prevOver)
    /\ ~drift.lastOver => (drift.consecutive = 0 /\ ~drift.raised)
    /\ (drift.lastOver /\ ~drift.prevOver) => ~drift.raised

\* the second of two consecutive over-threshold checks
C4_Witness ==
    /\ drift.raised
    /\ drift.consecutive = Hysteresis
    /\ drift.lastOver
    /\ drift.prevOver

(***************************************************************************)
(* Claims checked under FairSpec                                           *)
(***************************************************************************)
HttpFailures == {"status", "network", "timeout"}

\* C7: fetchPrediction never rejects, on every API failure it resolves
\* with the mock prediction, and every call eventually settles.
C7_FetchSettlesWithFallback ==
    /\ [](\A i \in TickIds :
            /\ req[i].fetch # "rejected"
            /\ req[i].http \in HttpFailures =>
                 (req[i].fetch = "resolved" /\ req[i].source = "mock"))
    /\ \A i \in TickIds :
         [](req[i].fetch = "pending" => <>(req[i].fetch = "resolved"))

\* a request that timed out and was answered by the fallback
C7_Witness ==
    \E i \in TickIds :
        /\ req[i].http = "timeout"
        /\ req[i].fetch = "resolved"
        /\ req[i].source = "mock"

\* C8: every tick that fired leads to exactly one callback invocation,
\* whether or not earlier ticks failed, and the settling of a request,
\* failed or not, never stops the interval.
C8_FailedTickDoesNotHaltStream ==
    /\ \A i \in TickIds :
         [](req[i].fetch # "none" => <>(req[i].callbacks = 1))
    /\ [](\A i \in TickIds : req[i].callbacks <= 1)
    /\ [][req' # req => stream' = stream]_vars

\* tick 1 failed, the stream went on and tick 2 was delivered after it
C8_Witness ==
    /\ ticks >= 2
    /\ req[1].http \in HttpFailures
    /\ req[1].callbacks = 1
    /\ req[2].http = "ok"
    /\ req[2].callbacks = 1
    /\ store.predictionHistory = <<2, 1>>
    /\ stream = "running"

(***************************************************************************)
(* C11: when the isolation, reconstruction and temporal detectors are all  *)
(* unavailable for a tick, the tick ends in NoDetectorAvailableError and   *)
(* the result carries no composite score; every composite that is emitted  *)
(* comes from at least one detector and divides by a weight sum above 0.   *)
(***************************************************************************)
Settled == ensResult.kind \in {"composite", "NoDetectorAvailableError"}

C11_NoDetectorNoComposite ==
    Settled =>
        /\ Available(det) = {} =>
              /\ ensResult.kind = "NoDetectorAvailableError"
              /\ DOMAIN ensResult = {"kind"}
        /\ ensResult.kind = "composite" =>
              /\ Available(det) # {}
              /\ \E d \in Detectors : ensResult.available[d]
              /\ ensResult.composite[2] > 0

C11_Witness ==
    /\ ensResult.kind = "NoDetectorAvailableError"
    /\ det["lstm"].status = "InsufficientHistoryError"
    /\ det["autoencoder"].status = "timeout"
    /\ det["isolation_forest"].status = "timeout"

(***************************************************************************)
(* C12: delivering a feedback item whose id was already applied leaves the *)
(* rolling window and the ThresholdState (cuts and rolling rates) exactly  *)
(* as they were: a delivery that applies no new id changes neither.        *)
(***************************************************************************)
C12_RedeliveryChangesNothing ==
    [][ appliedIds' = appliedIds =>
            /\ window' = window
            /\ threshold' = threshold ]_vars

\* a redelivery after an accepted update, with the item still in the window
C12_Witness ==
    /\ outcome = "duplicate"
    /\ threshold.last_updated # 0
    /\ \E i \in Positions(window) : window[i].id = threshold.last_updated

(***************************************************************************)
(* C13: the drift signal is advisory.  No step that runs a drift check     *)
(* changes any field of the ThresholdState, and the ThresholdState changes *)
(* only in a step in which AdaptiveThreshold accepts a new feedback item.  *)
(***************************************************************************)
C13_DriftNeverMutatesThreshold ==
    [][ /\ drift' # drift => threshold' = threshold
        /\ threshold' # threshold =>
              /\ drift' = drift
              /\ appliedIds' # appliedIds
              /\ outcome' = "accepted" ]_vars

\* DriftDetected raised on an asset whose cuts feedback has moved
C13_Witness ==
    /\ drift.raised
    /\ threshold.last_updated # 0
    /\ threshold.warning_cut # BootstrapWarningCut

(***************************************************************************)
(* C14: in each tick the EnsembleScorer combines only after every one of   *)
(* the three concurrently running detectors has returned a score, failed   *)
(* or hit its own timeout; a detector that timed out is unavailable in     *)
(* that tick's result; and every started tick eventually ends in a result  *)
(* or an error, in whatever order the detectors complete or time out.      *)
(***************************************************************************)
Finished(d) ==
    det[d].status \in {"scored", "timeout", "InsufficientHistoryError"}

C14_CombineAfterAllDetectors ==
    /\ [][ (ensResult.kind = "pending" /\ ensResult'.kind # "pending") =>
              /\ \A d \in Detectors : Finished(d)
              /\ det' = det ]_vars
    /\ [](ensResult.kind = "composite" =>
              \A d \in Detectors :
                  det[d].status = "timeout" =>
                      /\ ~ensResult.available[d]
                      /\ ensResult.applied[d][1] = 0)
    /\ [](ensResult.kind = "pending" => <>Settled)

\* a composite of two scores, the third detector having timed out
C14_Witness ==
    /\ ensResult.kind = "composite"
    /\ det["autoencoder"].status = "timeout"
    /\ det["isolation_forest"].status = "scored"
    /\ det["lstm"].status = "scored"

(***************************************************************************)
(* C15: the spectrum of generateSyntheticSensorData(true) has its largest  *)
(* bin above DC within one bin of 30 Hz, and has a bin with power in the   *)
(* band that contains 120 Hz.                                              *)
(***************************************************************************)
C15_AnomalousSpectrumPeaks ==
    (waveform.generated /\ waveform.anomalous) =>
        /\ WithinOneBin(waveform.largest, 30)
        /\ \E k \in waveform.bins :
              /\ BinFrequencyTimesN(k) <= 120 * DataPoints
              /\ 120 * DataPoints < BinFrequencyTimesN(k + 1)

(***************************************************************************)
(* C16: in the features of every prediction crest_factor = peak / rms      *)
(* (rms is at least 2.0 in a mock prediction, so no cap applies).          *)
(* The three numbers are multiples of 1 / (10 * RandDen); the equation is  *)
(* checked on their numerators as crest_factor * rms = peak.               *)
(***************************************************************************)
Tenths(x) == x \div (Den \div (10 * RandDen))

C16_CrestFactorIsPeakOverRms ==
    features.generated =>
        /\ features.rms > 0
        /\ Tenths(features.crest_factor) * Tenths(features.rms)
              = Tenths(features.peak) * (10 * RandDen)

(***************************************************************************)
(* C17: after any sequence of addToHistory and clearHistory calls the      *)
(* predictionHistory has at most 100 entries and is, newest first, the     *)
(* (up to) 100 predictions added last since the last clearHistory; an add  *)
(* to a full history drops exactly its oldest entry.                       *)
(***************************************************************************)
SinceClear == log.added - log.clearedAt

C17_HistoryKeepsLast100 ==
    /\ [](LET h == store.predictionHistory
          IN  /\ Len(h) <= 100
              /\ Len(h) = Min(SinceClear, 100)
              /\ \A i \in 1 .. Len(h) : h[i] = log.added - i + 1)
    /\ [][ (Len(store.predictionHistory) = 100 /\ log'.added # log.added) =>
              store'.predictionHistory =
                  <<log'.added>> \o SubSeq(store.predictionHistory, 1, 99) ]_vars

\* a full history that has dropped an entry, after an earlier clearHistory
C17_Witness ==
    /\ Len(store.predictionHistory) = 100
    /\ SinceClear > 100
    /\ log.clearedAt > 0

(***************************************************************************)
(* C18: after any sequence of addNotification and removeNotification calls *)
(* the store holds at most 50 notifications, newest first; every stored    *)
(* notification carries the type and the message it was added with; and    *)
(* an add to a full list drops exactly its oldest entry.                   *)
(***************************************************************************)
C18_NotificationsKeepLast50 ==
    /\ [](LET ns == store.notifications
          IN  /\ Len(ns) <= 50
              /\ \A i \in 1 .. Len(ns) : \A j \in 1 .. Len(ns) :
                    i < j => ns[i].timestamp > ns[j].timestamp
              /\ \A i \in 1 .. Len(ns) :
                    /\ ns[i].timestamp \in 1 .. log.notified
                    /\ ns[i].type = Payload(ns[i].timestamp).type
                    /\ ns[i].message = Payload(ns[i].timestamp).message)
    /\ [][ (Len(store.notifications) = 50 /\ log'.notified # log.notified) =>
              /\ Len(store'.notifications) = 50
              /\ store'.notifications[1].timestamp = log'.notified
              /\ SubSeq(store'.notifications, 2, 50)
                    = SubSeq(store.notifications, 1, 49) ]_vars

\* a full list that has dropped its oldest entry, a removal having been made
C18_Witness ==
    /\ Len(store.notifications) = 50
    /\ log.removed > 0
    /\ log.notified > 51
    /\ store.notifications[50].timestamp > 1

(***************************************************************************)
(* C19: once useHealthCheck has processed the outcome of a health check,   *)
(* isConnected is true exactly if the most recent health check succeeded;  *)
(* after a check that failed (retries included) isConnected is false and   *)
(* systemHealth is null, also when an earlier check had succeeded.         *)
(***************************************************************************)
Processed == EffectQuiet /\ hook.last # "none"

C19_ConnectedTracksLatestCheck ==
    Processed =>
        /\ store.isConnected <=> hook.last = "success"
        /\ hook.last = "failure" =>
              /\ ~store.isConnected
              /\ store.systemHealth = Null

(***************************************************************************)
(* C20: while useHealthCheck is mounted health checks keep being issued,   *)
(* also after a check has failed; and when a check succeeds after a failed *)
(* one, isConnected becomes true again and systemHealth holds the response *)
(* of that check.                                                          *)
(***************************************************************************)
Polling == query.fetchStatus = "fetching"

Recovered(h) ==
    /\ hook.mounted
    /\ hook.prev = "failure"
    /\ hook.last = "success"
    /\ query.data = h
    /\ EffectDue

C20_PollingRecovers ==
    /\ []((hook.mounted /\ query.status = "error" /\ ~Polling) =>
              <>(Polling \/ ~hook.mounted))
    /\ \A h \in HealthResponses :
          [](Recovered(h) =>
                <>(store.isConnected /\ store.systemHealth = h))

\* connected again, with the response of a check that followed a failed one
C20_Witness ==
    /\ Processed
    /\ hook.prev = "failure"
    /\ hook.last = "success"
    /\ store.isConnected
    /\ store.systemHealth = query.data
    /\ store.systemHealth # Null

(***************************************************************************)
(* C21: in every HealthResponse the status agrees with the models list:    *)
(* healthy exactly when every model is loaded, degraded exactly when some  *)
(* but not all are, unhealthy exactly when none is; and the indicator      *)
(* drawn for a response is green only for healthy, yellow only for         *)
(* degraded and red otherwise.                                             *)
(***************************************************************************)
AllLoaded(h) == \A m \in Detectors : h.models[m]

NoneLoaded(h) == \A m \in Detectors : ~h.models[m]

StatusAgrees(h) ==
    /\ h.status = "healthy" <=> AllLoaded(h)
    /\ h.status = "degraded" <=> (~AllLoaded(h) /\ ~NoneLoaded(h))
    /\ h.status = "unhealthy" <=> NoneLoaded(h)

C21_StatusMatchesModels ==
    /\ panel.health # NoHealthData => StatusAgrees(panel.health)
    /\ panel.indicator # Hidden =>
          /\ StatusAgrees(panel.indicator.of)
          /\ panel.indicator.label = panel.indicator.of.status
          /\ panel.indicator.colour = "bg-green-500"
                <=> AllLoaded(panel.indicator.of)
          /\ panel.indicator.colour = "bg-yellow-500"
                <=> (~AllLoaded(panel.indicator.of)
                       /\ ~NoneLoaded(panel.indicator.of))
          /\ panel.indicator.colour = "bg-red-500"
                <=> NoneLoaded(panel.indicator.of)

\* a degraded response on display while the server has lost every model
C21_Witness ==
    /\ panel.indicator.colour = "bg-yellow-500"
    /\ panel.indicator.of.models["lstm"]
    /\ ~panel.indicator.of.models["autoencoder"]
    /\ StatusOf(panel.loaded) = "unhealthy"

(***************************************************************************)
(* C22: once the cleanup function returned by createDataStream has been    *)
(* called, the stream callback is not invoked again and the stream changes *)
(* neither currentPrediction nor predictionHistory, also when a            *)
(* fetchPrediction of an earlier tick is still in flight at cleanup.       *)
(***************************************************************************)
CallbackCounts == [ i \in TickIds |-> req[i].callbacks ]

C22_CleanupIsFinal ==
    [][ stream = "stopped" =>
            /\ CallbackCounts' = CallbackCounts
            /\ store'.currentPrediction = store.currentPrediction
            /\ store'.predictionHistory = store.predictionHistory ]_vars

(***************************************************************************)
(* C23: predictions are delivered in tick order: the callback of an        *)
(* earlier tick runs before the callback of a later one, so the            *)
(* predictionHistory is ordered by tick, newest first, and                 *)
(* currentPrediction comes from the latest tick delivered.                 *)
(***************************************************************************)
Delivered == { i \in TickIds : req[i].callbacks > 0 }

C23_DeliveredInTickOrder ==
    LET h == store.predictionHistory
    IN  /\ \A a \in 1 .. Len(h) : \A b \in 1 .. Len(h) :
              a < b => h[a] > h[b]
        /\ \A i \in Delivered : store.currentPrediction >= i

(***************************************************************************)
(* C24: after every invocation of the stream callback of usePredictions    *)
(* currentPrediction is the prediction at the head of predictionHistory,   *)
(* and predictionHistory is one entry longer than before unless it held    *)
(* 100 entries already.                                                    *)
(***************************************************************************)
C24_CurrentIsHeadOfHistory ==
    [][ log'.added # log.added =>
            /\ store'.predictionHistory # << >>
            /\ store'.currentPrediction = store'.predictionHistory[1]
            /\ store'.currentPrediction = log'.added
            /\ Len(store'.predictionHistory) =
                  IF Len(store.predictionHistory) = 100
                  THEN 100
                  ELSE Len(store.predictionHistory) + 1 ]_vars

\* a delivery into a full history
C24_Witness ==
    /\ Len(store.predictionHistory) = 100
    /\ SinceClear > 100
    /\ store.currentPrediction = store.predictionHistory[1]

(***************************************************************************)
(* C25: calculateFeatureStats returns null exactly for the empty list; for *)
(* every other list, one of length 1 included, latest is predictions[0]    *)
(* and avgHealthScore, avgTemperature and anomalyRate are finite numbers,  *)
(* anomalyRate lies in [0, 100] (here in tenths of a percent) and          *)
(* anomalyCount is at most 99.                                             *)
(***************************************************************************)
Finite(x) == ~x.nan

C25_StatsAreFinite ==
    stats.called =>
        /\ stats.result.isNull <=> Len(stats.input) = 0
        /\ ~stats.result.isNull =>
              /\ stats.result.latest = stats.input[1]
              /\ Finite(stats.result.avgHealthScore)
              /\ Finite(stats.result.avgTemperature)
              /\ Finite(stats.result.anomalyRate)
              /\ stats.result.anomalyRate.value \in 0 .. 1000
              /\ stats.result.anomalyCount <= 99

(***************************************************************************)
(* C26: AppContent renders the dashboard only when the health query is not *)
(* loading, has no error and isConnected is true; the loading screen goes  *)
(* before the error screen; and the Connection Error screen is not shown   *)
(* in a render in which the health query has just succeeded with data.     *)
(***************************************************************************)
IsLoading == query.status = "pending" /\ query.fetchStatus = "fetching"

JustSucceeded ==
    /\ hook.mounted
    /\ hook.last = "success"
    /\ query.status = "success"
    /\ query.data # Null

C26_NoErrorScreenOnSuccess ==
    /\ AppContent(query, store) = "dashboard" =>
          (~IsLoading /\ ~query.error /\ store.isConnected)
    /\ IsLoading => AppContent(query, store) = "Connecting to server..."
    /\ JustSucceeded => AppContent(query, store) # "Connection Error"

(***************************************************************************)
(* C27: in every store state reachable through the updates of              *)
(* useHealthCheck, the state between the two setter calls of one update    *)
(* included, isConnected = true implies that systemHealth is not null.     *)
(***************************************************************************)
C27_ConnectedImpliesHealth ==
    store.isConnected => store.systemHealth # Null

\* between the two setter calls of an update made while connected
C27_Witness ==
    /\ hook.effect = "connect"
    /\ store.isConnected
    /\ store.systemHealth = query.data

(***************************************************************************)
(* C28: SpectrumChart marks at most 3 peaks; each is at an interior bin    *)
(* whose magnitude is strictly greater than both neighbours and strictly   *)
(* greater than 30% of the largest magnitude; the marked peaks are the     *)
(* largest qualifying bins, in descending order of magnitude; nothing is   *)
(* marked when showPeaks is false or there are fewer than 3 bins.          *)
(***************************************************************************)
Qualifying(m) ==
    { i \in 2 .. Len(m) - 1 :
        /\ m[i] > m[i - 1]
        /\ m[i] > m[i + 1]
        /\ \A j \in 1 .. Len(m) : 10 * m[i] > 3 * m[j] }

\* the bin a marker is drawn at
BinOf(marker) ==
    { i \in 1 .. Len(chart.magnitudes) :
        /\ chart.frequencies[i] = marker.freq
        /\ chart.magnitudes[i] = marker.mag }

MarkedBins == UNION { BinOf(chart.markers[k]) : k \in 1 .. Len(chart.markers) }

C28_PeaksAreTopThree ==
    chart.rendered =>
      LET m == chart.magnitudes
          marked == chart.markers
          n == Len(marked)
      IN  /\ n <= 3
          /\ \A k \in 1 .. n :
                 /\ Cardinality(BinOf(marked[k])) = 1
                 /\ BinOf(marked[k]) \subseteq Qualifying(m)
          /\ \A k \in 1 .. n, l \in 1 .. n :
                 k < l => /\ marked[k].mag >= marked[l].mag
                          /\ BinOf(marked[k]) # BinOf(marked[l])
          /\ \A i \in Qualifying(m) \ MarkedBins :
                 /\ chart.showPeaks => n = 3
                 /\ \A k \in 1 .. n : m[i] <= marked[k].mag
          /\ (~chart.showPeaks \/ Len(m) < 3) => n = 0

\* four qualifying bins of two different magnitudes: three markers, the
\* largest first although it is not the first in bin order, and a
\* qualifying bin left without a marker
C28_Witness ==
    /\ chart.rendered
    /\ chart.showPeaks
    /\ Cardinality(Qualifying(chart.magnitudes)) = 4
    /\ Len(chart.markers) = 3
    /\ chart.markers[1].mag > chart.markers[3].mag
    /\ chart.markers[1].freq > chart.markers[2].freq
    /\ Qualifying(chart.magnitudes) \ MarkedBins # {}

(***************************************************************************)
(* C29: removeNotification(id) removes every notification whose id is id   *)
(* and keeps all others in their order; it changes nothing when no         *)
(* notification has that id, so a second call changes nothing; and it      *)
(* removes exactly one notification, because no two stored notifications   *)
(* share an id.                                                            *)
(***************************************************************************)
IdsOf(ns) == { ns[i].id : i \in 1 .. Len(ns) }

\* after is before without some entries, the others in their order
KeepsOrder(before, after, id) ==
    LET kept == { i \in 1 .. Len(before) : before[i].id # id }
    IN  /\ Len(after) = Cardinality(kept)
        /\ \A i \in kept :
              after[Cardinality({ j \in kept : j <= i })] = before[i]

C29_RemovesExactlyOne ==
    [][ log'.removed # log.removed =>
          \E id \in IdsOf(store.notifications) \cup {NoSuchId} :
             /\ KeepsOrder(store.notifications, store'.notifications, id)
             /\ id \notin IdsOf(store.notifications) =>
                    store'.notifications = store.notifications
             /\ removeNotification(store', id) = store'
             /\ id \in IdsOf(store.notifications) =>
                    Len(store'.notifications) = Len(store.notifications) - 1
      ]_vars

====
